---------------------------- MODULE Spec2Model ----------------------------
(***************************************************************************)
(* Model of the PRESENT repository's own glue code:                        *)
(*   - the REST handlers of the two api.py files (SpecApi),                *)
(*   - the voice backend's transcription broadcast (SpecStt),              *)
(*   - the frontend RPC dispatch and its tool wrapper (SpecRpc),           *)
(*   - transcript topic matching and timestamp formatting (SpecMentions),  *)
(*   - the Perplexity-backed video search tool (SpecTool).                 *)
(* Python strings whose inner structure matters are sequences of chunks    *)
(* or of characters; None is the string "None".                            *)
(***************************************************************************)
EXTENDS Integers, Sequences, FiniteSets, TLC

VARIABLES
    \* ---- api.py: one request at a time through a handler
    apiPc,          \* "idle" | "handling" | "responded"
    apiReq,         \* the request being handled
    apiResp,        \* the HTTP response of the last handled request
    apiCrew,        \* what the handler did with the crew for this request
    apiServed,      \* number of requests answered so far
    \* ---- the LiveKit room of the voice backend
    remote_participants,  \* room.remote_participants: dict entries in insertion order
    \* ---- transcription.py: TranscriptionHandler.process_stt_stream
    enable_transcription, \* self.enable_transcription
    sttEvents,      \* the events agent_instance.default_stt_node produces
    sttNext,        \* how many of them have been pulled from the node
    sttPc,          \* "off" | "pull" | "broadcast" | "yield" | "done" | "raised"
    sttYielded,     \* the events the generator has yielded, in order
    bcIter,         \* the dict iterator of the running broadcast loop
    bcTarget,       \* destination of the publish_data call being awaited
    bcStart,        \* identities in the room when the running/last broadcast began
    bcAttempts,     \* publish_data calls of the running/last broadcast, with outcome
    sttSawFailure,  \* some broadcast of this stream hit an exception
    \* ---- tools.py / agent.py: the YouTube tool and its frontend dispatch
    rpcVariant,     \* "tools" (tools.py) | "agent" (agent.py)
    toolPc,         \* "off" | "idle" | "awaiting" | "returned"
    toolResult,     \* what the tool call returned
    toolCancelled,  \* cancel() was called on the tool call while it awaited
    toolMustCancel, \* a CancelledError is due at the tool's next step
    taskState,      \* frontend_task: "none" | "pending" | "rpc" | "finished" | "cancelled"
    taskMustCancel, \* cancel() was requested on frontend_task
    taskResult,     \* result of frontend_task when finished
    callRoom,       \* <<identities in the room>> when send_task_to_frontend ran, else << >>
    rpcCalls,       \* perform_rpc invocations: destination and method
    rpcOutcome,     \* how perform_rpc ended: outcome and reply
    \* ---- youtube_tool.py: topic matching on a transcript
    menPc,          \* "off" | "ready" | "found" | "linked"
    transcript,     \* segments: text (characters) and start (ticks)
    topics,         \* the requested topics, in order
    video_id,       \* the video the transcript belongs to
    topic_mentions, \* result of _find_topic_mentions
    timestamp_links,\* result of _generate_timestamp_links
    \* ---- enhanced_youtube_tool.py (crewai app): EnhancedYouTubeTool._run
    eytPc,          \* "off" | "ready" | "done"
    eytArgs,        \* query, topics, limit, mode
    eytEnv,         \* PERPLEXITY_API_KEY set, the search request's outcome
    eytResult,      \* the dictionary _run returned
    eytAnalyzed,    \* video ids handed to _analyze_transcript, in order
    \* ---- youtube_tool.py / enhanced_youtube_tool.py (present app): _run
    ytPc,           \* "off" | "ready" | "done"
    ytArgs,         \* query, video_url, topics
    ytEnv,          \* API keys and what the external services answer
    ytResult,       \* the dictionary _run returned
    ytRaised,       \* an exception left _run
    ytCalls         \* the external requests made, in order

apiVars == <<apiPc, apiReq, apiResp, apiCrew, apiServed>>
roomVars == <<remote_participants>>
sttVars == <<enable_transcription, sttEvents, sttNext, sttPc, sttYielded,
             bcIter, bcTarget, bcStart, bcAttempts, sttSawFailure>>

rpcVars == <<rpcVariant, toolPc, toolResult, toolCancelled, toolMustCancel,
             taskState, taskMustCancel, taskResult, callRoom, rpcCalls, rpcOutcome>>

menVars == <<menPc, transcript, topics, video_id, topic_mentions, timestamp_links>>

eytVars == <<eytPc, eytArgs, eytEnv, eytResult, eytAnalyzed>>

ytVars == <<ytPc, ytArgs, ytEnv, ytResult, ytRaised, ytCalls>>

vars == <<apiVars, roomVars, sttVars, rpcVars, menVars, eytVars, ytVars>>

\* what each component leaves alone
notApi == <<roomVars, sttVars, rpcVars, menVars, eytVars, ytVars>>
notRoom == <<apiVars, sttVars, rpcVars, menVars, eytVars, ytVars>>
notStt == <<apiVars, rpcVars, menVars, eytVars, ytVars>>
notRpc == <<apiVars, sttVars, menVars, eytVars, ytVars>>
notMen == <<apiVars, roomVars, sttVars, rpcVars, eytVars, ytVars>>
notEyt == <<apiVars, roomVars, sttVars, rpcVars, menVars, ytVars>>
notYt == <<apiVars, roomVars, sttVars, rpcVars, menVars, eytVars>>

None == "None"

\* Python truthiness of an Optional[str]
Truthy(x) == x \notin {None, ""}

-----------------------------------------------------------------------------
(* Bounds *)
MaxRequests == 2
MaxEvents == 2      \* length of the STT event stream
MaxEntries == 3     \* entries the participants dict may hold (live or deleted)
MaxSegments == 2    \* transcript length in the topic-matching inputs
MaxTopics == 2      \* number of requested topics
TicksPerSecond == 2 \* resolution of the fractional start times
MaxStartSeconds == 6100  \* longest start time of a segment (over 100 minutes)
MaxPieces == 3      \* pieces a search response is assembled from
MaxLimit == 2       \* largest `limit` argument of the enhanced tool

-----------------------------------------------------------------------------
(***************************************************************************)
(* api.py (both applications)                                              *)
(***************************************************************************)

NoReq == [app |-> None, endpoint |-> None, video_url |-> None, query |-> None,
          additional_info |-> FALSE]
NoResp == [code |-> 0, status |-> None, results |-> None, detail |-> << >>]
NoCrew == [built |-> FALSE, tasks |-> << >>, kicked |-> FALSE, raisedAt |-> "none"]

\* Requests that pass pydantic validation of the request models.
\* crewai app: every str field is required (possibly empty); present app:
\* video_url and query of YouTubeAnalysisRequest are Optional.
ApiRequests ==
    [app : {"present"}, endpoint : {"/analyze-youtube"},
     video_url : {None, "", "url"}, query : {None, "", "q"},
     additional_info : BOOLEAN]
    \cup
    [app : {"present", "crewai"}, endpoint : {"/fact-check"},
     video_url : {None}, query : {None}, additional_info : BOOLEAN]
    \cup
    [app : {"crewai"}, endpoint : {"/analyze-youtube"},
     video_url : {"", "url"}, query : {None}, additional_info : BOOLEAN]
    \cup
    [app : {"crewai"}, endpoint : {"/profile-research", "/enhanced-youtube-search"},
     video_url : {None}, query : {"", "q"}, additional_info : BOOLEAN]

\* fastapi.HTTPException(status_code, detail)
HTTPException(code, detail) ==
    [type |-> "HTTPException", status_code |-> code, detail |-> detail]

\* any other exception raised by the crew framework, with its message
CrewError(type, msg) == [type |-> type, status_code |-> 0, detail |-> msg]

CodeStr(code) == IF code = 400 THEN "400" ELSE IF code = 500 THEN "500" ELSE "?"

\* str(e): starlette's HTTPException prints "<status_code>: <detail>"
StrOfException(e) ==
    IF e.type = "HTTPException"
    THEN <<CodeStr(e.status_code), ": ">> \o e.detail
    ELSE e.detail

\* `except Exception as e`: HTTPException derives from Exception, so every
\* exception raised in a handler's try block is caught here.
CaughtByExceptException(e) == e.type \in {"HTTPException", "AttributeError", "Exception"}

\* Outcome of a try body: a returned response or a raised exception.
Returned(results, crew) ==
    [raised |-> FALSE, exc |-> CrewError(None, << >>),
     resp |-> [code |-> 200, status |-> "success", results |-> results, detail |-> << >>],
     crew |-> crew]
Raised(e, crew) ==
    [raised |-> TRUE, exc |-> e, resp |-> NoResp, crew |-> crew]

\* The handlers' common except clause: raise HTTPException(500, "An error occurred: ...")
ExceptClause(out) ==
    IF out.raised /\ CaughtByExceptException(out.exc)
    THEN [out EXCEPT !.resp = [code |-> 500, status |-> None, results |-> None,
                               detail |-> <<"An error occurred: ">> \o StrOfException(out.exc)]]
    ELSE IF out.raised
    THEN [out EXCEPT !.resp = [code |-> out.exc.status_code, status |-> None,
                               results |-> None, detail |-> out.exc.detail]]
    ELSE out

\* Task factory methods the Present class of each application defines.
PresentTasks ==
    {"context_task", "fact_check_task", "youtube_analysis_task"}
CrewaiTasks ==
    {"context_task", "fact_check_task", "youtube_analysis_task",
     "enhanced_youtube_search_task", "profile_research_task"}

\* Build a crew with the given single task and kick it off.  constructRaises
\* and kickoffRaises are the framework's outcomes.
RunCrew(task, constructRaises, kickoffRaises) ==
    IF constructRaises
    THEN Raised(CrewError("Exception", <<"construct failed">>),
                [NoCrew EXCEPT !.raisedAt = "construct"])
    ELSE IF kickoffRaises
    THEN Raised(CrewError("Exception", <<"kickoff failed">>),
                [built |-> TRUE, tasks |-> <<task>>, kicked |-> TRUE, raisedAt |-> "kickoff"])
    ELSE Returned(<<"result of", task>>,
                [built |-> TRUE, tasks |-> <<task>>, kicked |-> TRUE, raisedAt |-> "none"])

\* src/present api.py: fact_check
fact_check(req, constructRaises, kickoffRaises) ==
    ExceptClause(RunCrew("fact_check_task", constructRaises, kickoffRaises))

\* src/present api.py: analyze_youtube
analyze_youtube(req, constructRaises, kickoffRaises) ==
    LET body ==
          IF ~Truthy(req.video_url) /\ ~Truthy(req.query)
          THEN Raised(HTTPException(400, <<"Either video_url or query must be provided">>),
                      [NoCrew EXCEPT !.raisedAt = "validation"])
          ELSE LET method == IF Truthy(req.query) THEN "youtube_search_task"
                             ELSE "youtube_analysis_task"
               IN IF constructRaises
                  THEN Raised(CrewError("Exception", <<"construct failed">>),
                              [NoCrew EXCEPT !.raisedAt = "construct"])
                  ELSE IF method \notin PresentTasks
                  THEN Raised(CrewError("AttributeError",
                                 <<"'Present' object has no attribute '", method, "'">>),
                              [NoCrew EXCEPT !.raisedAt = "construct"])
                  ELSE RunCrew(method, FALSE, kickoffRaises)
    IN ExceptClause(body)

\* crewai app api.py
crewai_fact_check(req, constructRaises, kickoffRaises) ==
    ExceptClause(RunCrew("fact_check_task", constructRaises, kickoffRaises))

crewai_analyze_youtube(req, constructRaises, kickoffRaises) ==
    ExceptClause(RunCrew("youtube_analysis_task", constructRaises, kickoffRaises))

profile_research(req, constructRaises, kickoffRaises) ==
    ExceptClause(RunCrew("profile_research_task", constructRaises, kickoffRaises))

enhanced_youtube_search(req, constructRaises, kickoffRaises) ==
    ExceptClause(RunCrew("enhanced_youtube_search_task", constructRaises, kickoffRaises))

\* FastAPI routing: the handler registered for (app, endpoint)
Dispatch(req, c, k) ==
    IF req.app = "present"
    THEN IF req.endpoint = "/fact-check" THEN fact_check(req, c, k)
         ELSE analyze_youtube(req, c, k)
    ELSE IF req.endpoint = "/fact-check" THEN crewai_fact_check(req, c, k)
    ELSE IF req.endpoint = "/analyze-youtube" THEN crewai_analyze_youtube(req, c, k)
    ELSE IF req.endpoint = "/profile-research" THEN profile_research(req, c, k)
    ELSE enhanced_youtube_search(req, c, k)

ApiOff ==
    /\ apiPc = "off"
    /\ apiReq = NoReq
    /\ apiResp = NoResp
    /\ apiCrew = NoCrew
    /\ apiServed = 0

ApiInit ==
    /\ apiPc = "idle"
    /\ apiReq = NoReq
    /\ apiResp = NoResp
    /\ apiCrew = NoCrew
    /\ apiServed = 0

\* A POST request arrives and is routed to its handler.
ApiReceive ==
    /\ apiPc \in {"idle", "responded"}
    /\ apiServed < MaxRequests
    /\ \E r \in ApiRequests : apiReq' = r
    /\ apiPc' = "handling"
    /\ apiResp' = NoResp
    /\ apiCrew' = NoCrew
    /\ UNCHANGED <<apiServed, notApi>>

\* The handler runs to completion (it awaits nothing; kickoff is synchronous).
ApiHandle ==
    /\ apiPc = "handling"
    /\ \E c \in BOOLEAN, k \in BOOLEAN :
          LET out == Dispatch(apiReq, c, k)
          IN /\ apiResp' = out.resp
             /\ apiCrew' = out.crew
    /\ apiPc' = "responded"
    /\ apiServed' = apiServed + 1
    /\ UNCHANGED <<apiReq, notApi>>

ApiNext == ApiReceive \/ ApiHandle

-----------------------------------------------------------------------------
(***************************************************************************)
(* room.remote_participants: a Python dict keyed by participant identity.  *)
(* Entries keep insertion order; a deleted key leaves a dummy entry, as in *)
(* CPython, which is what a running iterator observes.                     *)
(***************************************************************************)

Participants == {"p1", "p2", "p3"}
Dummy == "<dummy>"

Live(d) == {d[i] : i \in 1..Len(d)} \ {Dummy}
LiveCount(d) == Cardinality(Live(d))

\* iter(d): position in the entries, size at creation, items still expected
DictIter(d) == [pos |-> 0, used |-> LiveCount(d), len |-> LiveCount(d)]
NoIter == [pos |-> 0, used |-> 0, len |-> 0]

\* next(it): RuntimeError when the dict changed size (or its keys changed)
\* since the iterator was created, StopIteration at the end of the entries.
DictIterNext(d, it) ==
    IF LiveCount(d) # it.used
    THEN [kind |-> "RuntimeError", key |-> None, it |-> it]
    ELSE LET rest == {i \in (it.pos + 1)..Len(d) : d[i] # Dummy}
         IN IF rest = {}
            THEN [kind |-> "StopIteration", key |-> None, it |-> it]
            ELSE LET i == CHOOSE j \in rest : \A k \in rest : j <= k
                 IN IF it.len = 0
                    THEN [kind |-> "RuntimeError", key |-> None, it |-> it]
                    ELSE [kind |-> "item", key |-> d[i],
                          it |-> [pos |-> i, used |-> it.used, len |-> it.len - 1]]

\* next(iter(d)) on a non-empty dict: its first key
FirstKey(d) == DictIterNext(d, DictIter(d)).key

\* Rooms a session can start in: distinct identities, no deleted entries.
InitialRooms ==
    {d \in UNION {[1..n -> Participants] : n \in 0..2} :
        \A i, j \in 1..Len(d) : i # j => d[i] # d[j]}

\* A participant connects: the room inserts it into the dict.
RoomJoin ==
    /\ Len(remote_participants) < MaxEntries
    /\ \E p \in Participants \ Live(remote_participants) :
          remote_participants' = Append(remote_participants, p)

\* A participant disconnects: the room deletes its key.
RoomLeave ==
    \E p \in Live(remote_participants) :
        remote_participants' =
            [i \in 1..Len(remote_participants) |->
                IF remote_participants[i] = p THEN Dummy ELSE remote_participants[i]]

-----------------------------------------------------------------------------
(***************************************************************************)
(* transcription.py: TranscriptionHandler                                  *)
(***************************************************************************)

SpeechEventTypes ==
    {"START_OF_SPEECH", "INTERIM_TRANSCRIPT", "FINAL_TRANSCRIPT", "END_OF_SPEECH"}

\* Streams the default STT node can produce; event i carries its position
\* as identity.  Transcript events carry at least one alternative.
SttStreams ==
    {[i \in 1..Len(ts) |-> [id |-> i, type |-> ts[i]]] :
        ts \in UNION {[1..n -> SpeechEventTypes] : n \in 0..MaxEvents}}

IsTranscript(event) == event.type \in {"FINAL_TRANSCRIPT", "INTERIM_TRANSCRIPT"}

\* a narrower clause, `except PublishDataError`: the RuntimeError of a dict
\* that changed during the loop would leave the handler
BroadcastCatchesPublishErrorOnly(excType) == excType = "PublishDataError"

\* `except Exception` of _broadcast_transcription: what it catches
BroadcastCatches(excType) == excType \in {"PublishDataError", "RuntimeError"}

\* Where the generator continues after _broadcast_transcription met excType:
\* caught and logged, the handler returns and the event is yielded;
\* otherwise the exception leaves process_stt_stream.
AfterBroadcastError(excType) ==
    IF BroadcastCatches(excType) THEN "yield" ELSE "raised"

SttOff ==
    /\ enable_transcription = FALSE
    /\ sttEvents = << >>
    /\ sttNext = 0
    /\ sttPc = "off"
    /\ sttYielded = << >>
    /\ bcIter = NoIter
    /\ bcTarget = None
    /\ bcStart = {}
    /\ bcAttempts = << >>
    /\ sttSawFailure = FALSE

SttInit ==
    /\ enable_transcription \in BOOLEAN
    /\ sttEvents \in SttStreams
    /\ sttNext = 0
    /\ sttPc = "pull"
    /\ sttYielded = << >>
    /\ bcIter = NoIter
    /\ bcTarget = None
    /\ bcStart = {}
    /\ bcAttempts = << >>
    /\ sttSawFailure = FALSE

\* The STT node is exhausted: the generator ends.
SttEnd ==
    /\ sttPc = "pull"
    /\ sttNext = Len(sttEvents)
    /\ sttPc' = "done"
    /\ UNCHANGED <<enable_transcription, sttEvents, sttNext, sttYielded,
                   bcIter, bcTarget, bcStart, bcAttempts, sttSawFailure,
                   roomVars, notStt>>

\* The node delivers its next event.  With transcription disabled, or for an
\* event that is no transcript, the generator goes straight to its yield.
\* Otherwise _handle_*_transcript calls _broadcast_transcription, which runs
\* up to its first await: the publish_data call for the first participant.
SttPull ==
    /\ sttPc = "pull"
    /\ sttNext < Len(sttEvents)
    /\ sttNext' = sttNext + 1
    /\ LET event == sttEvents[sttNext + 1]
       IN IF enable_transcription /\ IsTranscript(event)
          THEN /\ bcStart' = Live(remote_participants)
               /\ bcAttempts' = << >>
               /\ IF LiveCount(remote_participants) > 0
                  THEN LET nx == DictIterNext(remote_participants,
                                              DictIter(remote_participants))
                       IN /\ bcIter' = nx.it
                          /\ bcTarget' = nx.key
                          /\ sttPc' = "broadcast"
                  ELSE /\ bcIter' = NoIter
                       /\ bcTarget' = None
                       /\ sttPc' = "yield"
          ELSE /\ sttPc' = "yield"
               /\ bcStart' = {}
               /\ bcAttempts' = << >>
               /\ bcIter' = NoIter
               /\ bcTarget' = None
    /\ UNCHANGED <<enable_transcription, sttEvents, sttYielded, sttSawFailure,
                   roomVars, notStt>>

\* The awaited publish_data returns: the loop asks the dict iterator for the
\* next participant and publishes to it, or the loop ends.
SttPublished ==
    /\ sttPc = "broadcast"
    /\ bcAttempts' = Append(bcAttempts, [to |-> bcTarget, ok |-> TRUE])
    /\ LET nx == DictIterNext(remote_participants, bcIter)
       IN CASE nx.kind = "item" ->
                 /\ bcIter' = nx.it
                 /\ bcTarget' = nx.key
                 /\ sttPc' = "broadcast"
                 /\ UNCHANGED sttSawFailure
            [] nx.kind = "StopIteration" ->
                 /\ bcIter' = NoIter
                 /\ bcTarget' = None
                 /\ sttPc' = "yield"
                 /\ UNCHANGED sttSawFailure
            [] nx.kind = "RuntimeError" ->
                 /\ bcIter' = NoIter
                 /\ bcTarget' = None
                 /\ sttPc' = AfterBroadcastError("RuntimeError")
                 /\ sttSawFailure' = TRUE
    /\ UNCHANGED <<enable_transcription, sttEvents, sttNext, sttYielded, bcStart,
                   roomVars, notStt>>

\* The awaited publish_data raises.
SttPublishFailed ==
    /\ sttPc = "broadcast"
    /\ bcAttempts' = Append(bcAttempts, [to |-> bcTarget, ok |-> FALSE])
    /\ bcIter' = NoIter
    /\ bcTarget' = None
    /\ sttPc' = AfterBroadcastError("PublishDataError")
    /\ sttSawFailure' = TRUE
    /\ UNCHANGED <<enable_transcription, sttEvents, sttNext, sttYielded, bcStart,
                   roomVars, notStt>>

\* `yield event`: the consumer receives the event pulled last.
SttYield ==
    /\ sttPc = "yield"
    /\ sttYielded' = Append(sttYielded, sttEvents[sttNext])
    /\ sttPc' = "pull"
    /\ UNCHANGED <<enable_transcription, sttEvents, sttNext,
                   bcIter, bcTarget, bcStart, bcAttempts, sttSawFailure,
                   roomVars, notStt>>

SttRoomJoin == RoomJoin /\ UNCHANGED notRoom
SttRoomLeave == RoomLeave /\ UNCHANGED notRoom

SttNext ==
    \/ SttEnd
    \/ SttPull
    \/ SttPublished
    \/ SttPublishFailed
    \/ SttYield
    \/ SttRoomJoin
    \/ SttRoomLeave

-----------------------------------------------------------------------------
(***************************************************************************)
(* tools.py: send_task_to_frontend, generate_youtube_task_prompt           *)
(* agent.py: ConversationalAssistant._send_task_to_frontend,               *)
(*           ConversationalAssistant.generate_Youtube_task_prompt          *)
(* The tool call and frontend_task are asyncio tasks; each action is one   *)
(* step of a task between two awaits.                                      *)
(***************************************************************************)

Replies == {"reply1", "reply2"}
RpcOutcomes == {"returned", "TimeoutError", "RpcError"}
NoOutcome == [outcome |-> "none", reply |-> None]

NoParticipantsResult ==
    [status |-> "ERROR", message |-> <<"No remote participants to send the task to.">>]
SuccessResult(task_type, reply) ==
    [status |-> "SUCCESS",
     message |-> <<"Task '", task_type, "' successfully dispatched.">>,
     frontend_response |-> reply]
TimeoutResult(task_type) ==
    [status |-> "ERROR", message |-> <<"RPC timeout for task '", task_type, "'.">>]
ErrorResult(task_type, excType) ==
    [status |-> "ERROR", message |-> <<"RPC error for task '", task_type, "': ", excType>>]
CancelledResult ==
    [status |-> "ERROR", message |-> <<"Youtube task cancelled by user">>]

\* `except Exception`: asyncio.CancelledError derives from BaseException
IsException(excType) == excType \in {"TimeoutError", "RpcError"}

\* send_task_to_frontend without its guard: perform_rpc is attempted whatever
\* the room holds
EnterWithoutCheck(d, method) ==
    [done |-> FALSE, result |-> None,
     call |-> <<[destination_identity |-> FirstKey(d), method |-> method]>>]

\* send_task_to_frontend / _send_task_to_frontend from entry to the first
\* await: the early return on an empty room, else perform_rpc to the first
\* remote participant (tools.py returns inside the first loop iteration,
\* agent.py takes next(iter(...))).
send_task_to_frontend_enter(d, method) ==
    IF LiveCount(d) = 0
    THEN [done |-> TRUE, result |-> NoParticipantsResult, call |-> << >>]
    ELSE [done |-> FALSE, result |-> None,
          call |-> <<[destination_identity |-> FirstKey(d), method |-> method]>>]

\* the except clauses in the wrong order: TimeoutError handled as any error
ResumeGenericFirst(task_type, outcome, reply) ==
    IF outcome = "returned"
    THEN [state |-> "finished", result |-> SuccessResult(task_type, reply)]
    ELSE IF IsException(outcome)
    THEN [state |-> "finished", result |-> ErrorResult(task_type, outcome)]
    ELSE [state |-> "cancelled", result |-> None]

\* a coroutine that also catches the CancelledError thrown into it
ResumeCatchingCancel(task_type, outcome, reply) ==
    IF outcome = "returned"
    THEN [state |-> "finished", result |-> SuccessResult(task_type, reply)]
    ELSE IF outcome = "TimeoutError"
    THEN [state |-> "finished", result |-> TimeoutResult(task_type)]
    ELSE [state |-> "finished", result |-> ErrorResult(task_type, outcome)]

\* send_task_to_frontend from the await of perform_rpc to its end
send_task_to_frontend_resume(task_type, outcome, reply) ==
    IF outcome = "returned"
    THEN [state |-> "finished", result |-> SuccessResult(task_type, reply)]
    ELSE IF outcome = "TimeoutError"
    THEN [state |-> "finished", result |-> TimeoutResult(task_type)]
    ELSE IF IsException(outcome)
    THEN [state |-> "finished", result |-> ErrorResult(task_type, outcome)]
    ELSE [state |-> "cancelled", result |-> None]

TaskDone == taskState \in {"finished", "cancelled"}

\* generate_youtube_task_prompt from `await frontend_task` to its return.
\* tools.py: try/return result, except CancelledError/return, finally cancel
\* if not done.  agent.py: result assigned in try or except, finally cancel
\* and return result.  The await ends only when frontend_task is done, so
\* the cancel in finally meets a finished task and requests nothing.
tool_resume(variant, cancelledAtAwait, result) ==
    IF cancelledAtAwait THEN CancelledResult ELSE result

RpcOff ==
    /\ rpcVariant = None
    /\ toolPc = "off"
    /\ toolResult = None
    /\ toolCancelled = FALSE
    /\ toolMustCancel = FALSE
    /\ taskState = "none"
    /\ taskMustCancel = FALSE
    /\ taskResult = None
    /\ callRoom = << >>
    /\ rpcCalls = << >>
    /\ rpcOutcome = NoOutcome

RpcInit ==
    /\ rpcVariant \in {"tools", "agent"}
    /\ toolPc = "idle"
    /\ toolResult = None
    /\ toolCancelled = FALSE
    /\ toolMustCancel = FALSE
    /\ taskState = "none"
    /\ taskMustCancel = FALSE
    /\ taskResult = None
    /\ callRoom = << >>
    /\ rpcCalls = << >>
    /\ rpcOutcome = NoOutcome

\* The LLM calls the tool: frontend_task is created and awaited.
ToolCall ==
    /\ toolPc = "idle"
    /\ toolPc' = "awaiting"
    /\ taskState' = "pending"
    /\ UNCHANGED <<rpcVariant, toolResult, toolCancelled, toolMustCancel,
                   taskMustCancel, taskResult, callRoom, rpcCalls, rpcOutcome,
                   roomVars, notRpc>>

\* frontend_task gets its first step: a cancel requested before it ran ends
\* it at once, else send_task_to_frontend runs to its first await or return.
TaskStart ==
    /\ taskState = "pending"
    /\ IF taskMustCancel
       THEN /\ taskState' = "cancelled"
            /\ UNCHANGED <<taskResult, callRoom, rpcCalls>>
       ELSE LET e == send_task_to_frontend_enter(remote_participants, "youtubeSearch")
            IN /\ callRoom' = <<Live(remote_participants)>>
               /\ rpcCalls' = rpcCalls \o e.call
               /\ taskState' = IF e.done THEN "finished" ELSE "rpc"
               /\ taskResult' = e.result
    /\ UNCHANGED <<rpcVariant, toolPc, toolResult, toolCancelled, toolMustCancel,
                   taskMustCancel, rpcOutcome, roomVars, notRpc>>

\* perform_rpc ends: it returns the frontend's reply or raises.
RpcEnds ==
    /\ taskState = "rpc"
    /\ ~taskMustCancel
    /\ \E o \in RpcOutcomes, r \in Replies :
          LET reply == IF o = "returned" THEN r ELSE None
              res == send_task_to_frontend_resume("Youtube", o, reply)
          IN /\ rpcOutcome' = [outcome |-> o, reply |-> reply]
             /\ taskState' = res.state
             /\ taskResult' = res.result
    /\ UNCHANGED <<rpcVariant, toolPc, toolResult, toolCancelled, toolMustCancel,
                   taskMustCancel, callRoom, rpcCalls, roomVars, notRpc>>

\* frontend_task was cancelled while awaiting perform_rpc: CancelledError is
\* thrown into send_task_to_frontend at the await.
RpcCancelled ==
    /\ taskState = "rpc"
    /\ taskMustCancel
    /\ LET res == send_task_to_frontend_resume("Youtube", "CancelledError", None)
       IN /\ rpcOutcome' = [outcome |-> "CancelledError", reply |-> None]
          /\ taskState' = res.state
          /\ taskResult' = res.result
    /\ UNCHANGED <<rpcVariant, toolPc, toolResult, toolCancelled, toolMustCancel,
                   taskMustCancel, callRoom, rpcCalls, roomVars, notRpc>>

\* The tool call is cancelled (the user interrupts) while it awaits
\* frontend_task: asyncio passes the cancel on to the awaited task when that
\* is not done, else it marks the tool call itself.
ToolCancel ==
    /\ toolPc = "awaiting"
    /\ ~toolCancelled
    /\ toolCancelled' = TRUE
    /\ IF TaskDone
       THEN toolMustCancel' = TRUE /\ UNCHANGED taskMustCancel
       ELSE taskMustCancel' = TRUE /\ UNCHANGED toolMustCancel
    /\ UNCHANGED <<rpcVariant, toolPc, toolResult, taskState, taskResult,
                   callRoom, rpcCalls, rpcOutcome, roomVars, notRpc>>

\* frontend_task is done and the tool call resumes at its await.
ToolResume ==
    /\ toolPc = "awaiting"
    /\ TaskDone
    /\ toolResult' = tool_resume(rpcVariant,
                                 toolMustCancel \/ taskState = "cancelled", taskResult)
    /\ toolPc' = "returned"
    /\ toolMustCancel' = FALSE
    /\ UNCHANGED <<rpcVariant, toolCancelled, taskState, taskMustCancel, taskResult,
                   callRoom, rpcCalls, rpcOutcome, roomVars, notRpc>>

RpcRoomJoin == RoomJoin /\ UNCHANGED notRoom
RpcRoomLeave == RoomLeave /\ UNCHANGED notRoom

RpcNext ==
    \/ ToolCall
    \/ TaskStart
    \/ RpcEnds
    \/ RpcCancelled
    \/ ToolCancel
    \/ ToolResume
    \/ RpcRoomJoin
    \/ RpcRoomLeave

-----------------------------------------------------------------------------
(***************************************************************************)
(* youtube_tool.py: YouTubeTranscriptTool._find_topic_mentions and         *)
(* _generate_timestamp_links (enhanced_youtube_tool.py of the present app  *)
(* holds a verbatim copy of both).  A string is a sequence of characters,  *)
(* a start time a number of ticks (1/TicksPerSecond s).                    *)
(***************************************************************************)

\* str.lower() on the characters used
LowerChar(c) == IF c = "A" THEN "a" ELSE IF c = "B" THEN "b" ELSE c
Lower(str) == [i \in 1..Len(str) |-> LowerChar(str[i])]

\* Python's `sub in str`
Contains(str, sub) ==
    \E i \in 0..(Len(str) - Len(sub)) : SubSeq(str, i + 1, i + Len(sub)) = sub

DigitChars == <<"0", "1", "2", "3", "4", "5", "6", "7", "8", "9">>

\* str(n) for n >= 0
RECURSIVE Decimal(_)
Decimal(n) ==
    IF n < 10 THEN <<DigitChars[n + 1]>>
    ELSE Decimal(n \div 10) \o <<DigitChars[(n % 10) + 1]>>

\* f"{n:02d}" for n >= 0
Format02d(n) == IF n < 10 THEN <<"0">> \o Decimal(n) ELSE Decimal(n)

\* int(x) of a non-negative float given in ticks
IntOf(ticks) == ticks \div TicksPerSecond

\* seconds taken without the modulo
FormatTimestampNoModulo(start_time) ==
    Format02d(start_time \div (60 * TicksPerSecond)) \o <<":">> \o Format02d(IntOf(start_time))

\* minutes = int(start_time // 60); seconds = int(start_time % 60);
\* timestamp = f"{minutes:02d}:{seconds:02d}"
FormatTimestamp(start_time) ==
    LET minutes == start_time \div (60 * TicksPerSecond)
        seconds == IntOf(start_time % (60 * TicksPerSecond))
    IN Format02d(minutes) \o <<":">> \o Format02d(seconds)

Mention(segment) ==
    [timestamp |-> FormatTimestamp(segment.start),
     youtube_timestamp |-> IntOf(segment.start),
     time_in_seconds |-> segment.start,
     text |-> segment.text]

Range(seq) == {seq[i] : i \in 1..Len(seq)}

\* `if topic_lower in text` with the topic taken as given
TopicMatchesCaseSensitive(topic, segment) == Contains(Lower(segment.text), topic)

\* `if topic_lower in text`, text and topic both lower-cased
TopicMatches(topic, segment) == Contains(Lower(segment.text), Lower(topic))

\* the inner loop: `for topic in topics`, from the k-th topic on
RECURSIVE ForTopics(_, _, _, _)
ForTopics(results, segment, tps, k) ==
    IF k > Len(tps) THEN results
    ELSE ForTopics(IF TopicMatches(tps[k], segment)
                   THEN [results EXCEPT ![tps[k]] = Append(@, Mention(segment))]
                   ELSE results,
                   segment, tps, k + 1)

\* the outer loop: `for segment in transcript`, from the i-th segment on
RECURSIVE ForSegments(_, _, _, _)
ForSegments(results, tr, tps, i) ==
    IF i > Len(tr) THEN results
    ELSE ForSegments(ForTopics(results, tr[i], tps, 1), tr, tps, i + 1)

_find_topic_mentions(tr, tps) ==
    ForSegments([t \in Range(tps) |-> << >>], tr, tps, 1)

TimestampLink(vid, seconds) ==
    <<"https://www.youtube.com/watch?v=", vid, "&t=">> \o Decimal(seconds) \o <<"s">>

_generate_timestamp_links(vid, mentions) ==
    [t \in DOMAIN mentions |->
        [k \in 1..Len(mentions[t]) |->
            [timestamp |-> mentions[t][k].timestamp,
             youtube_timestamp |-> mentions[t][k].youtube_timestamp,
             time_in_seconds |-> mentions[t][k].time_in_seconds,
             text |-> mentions[t][k].text,
             timestamp_link |-> TimestampLink(vid, IntOf(mentions[t][k].time_in_seconds))]]]

\* Inputs: short transcripts over a few texts and start times with any topic
\* list, and one-segment transcripts over the whole range of start times.
SegmentTexts == {<<"a", "b">>, <<"A", "b", "a">>, <<"b", "B">>, << >>}
TopicChoices == {<<"a">>, <<"A", "B">>, <<"B", "B">>, << >>}
SomeStarts == {0, 59 * TicksPerSecond + 1, 60 * TicksPerSecond}
AllStarts == 0..(MaxStartSeconds * TicksPerSecond)
VideoIds == {"dQw4w9WgXcQ", "abc_-123"}

SeqsUpTo(S, n) == UNION {[1..m -> S] : m \in 0..n}

MentionInputs ==
    [transcript : SeqsUpTo([text : SegmentTexts, start : SomeStarts], MaxSegments),
     topics : SeqsUpTo(TopicChoices, MaxTopics),
     video_id : {"dQw4w9WgXcQ"}]
    \cup
    [transcript : {<<[text |-> <<"a", "b">>, start |-> st]>> : st \in AllStarts},
     topics : {<<<<"A">>>>},
     video_id : VideoIds]

MenOff ==
    /\ menPc = "off"
    /\ transcript = << >>
    /\ topics = << >>
    /\ video_id = None
    /\ topic_mentions = << >>
    /\ timestamp_links = << >>

MenInit ==
    /\ menPc = "ready"
    /\ \E inp \in MentionInputs :
          /\ transcript = inp.transcript
          /\ topics = inp.topics
          /\ video_id = inp.video_id
    /\ topic_mentions = << >>
    /\ timestamp_links = << >>

FindTopicMentions ==
    /\ menPc = "ready"
    /\ topic_mentions' = _find_topic_mentions(transcript, topics)
    /\ menPc' = "found"
    /\ UNCHANGED <<transcript, topics, video_id, timestamp_links, notMen>>

GenerateTimestampLinks ==
    /\ menPc = "found"
    /\ timestamp_links' = _generate_timestamp_links(video_id, topic_mentions)
    /\ menPc' = "linked"
    /\ UNCHANGED <<transcript, topics, video_id, topic_mentions, notMen>>

MenNext == FindTopicMentions \/ GenerateTimestampLinks

-----------------------------------------------------------------------------
(***************************************************************************)
(* enhanced_youtube_tool.py of the crewai app: EnhancedYouTubeTool         *)
(* A text is a sequence of tokens: single characters, and the literals the *)
(* regular expressions look for as one token each.                         *)
(***************************************************************************)

\* tokens made only of characters of [a-zA-Z0-9_-]
IdTokens == {"a", "Z", "7", "_", "-", "s", "http"}
DigitTokens == {"7"}
HostTokens == {"youtube.com/watch?v=", "youtu.be/"}

\* last index of the longest run of id tokens starting at j (j - 1: none)
RECURSIVE IdRunEnd(_, _)
IdRunEnd(text, j) ==
    IF j <= Len(text) /\ text[j] \in IdTokens THEN IdRunEnd(text, j + 1) ELSE j - 1

At(text, j) == IF j >= 1 /\ j <= Len(text) THEN text[j] ELSE None

\* url_pattern matched at position i:
\* https?://(?:www\.)?(?:youtube\.com/watch\?v=|youtu\.be/)([a-zA-Z0-9_-]+)
UrlMatchAt(text, i) ==
    LET j1 == IF At(text, i + 1) = "s" THEN i + 2 ELSE i + 1     \* after https?
        j2 == j1 + 1                                             \* after ://
        j3 == IF At(text, j2) = "www." THEN j2 + 1 ELSE j2       \* after (www.)?
        j4 == j3 + 1                                             \* after the host
        e == IdRunEnd(text, j4)
    IN IF /\ At(text, i) = "http"
          /\ At(text, j1) = "://"
          /\ At(text, j3) \in HostTokens
          /\ e >= j4
       THEN [ok |-> TRUE, url |-> SubSeq(text, i, e), video_id |-> SubSeq(text, j4, e),
             end |-> e]
       ELSE [ok |-> FALSE, url |-> << >>, video_id |-> << >>, end |-> i]

\* re.finditer(url_pattern, text): the non-overlapping matches from i on
RECURSIVE FindIter(_, _)
FindIter(text, i) ==
    IF i > Len(text) THEN << >>
    ELSE LET m == UrlMatchAt(text, i)
         IN IF m.ok THEN <<m>> \o FindIter(text, m.end + 1)
            ELSE FindIter(text, i + 1)

\* text.split('\n')
RECURSIVE SplitLines(_)
SplitLines(text) ==
    LET breaks == {i \in 1..Len(text) : text[i] = "\n"}
    IN IF breaks = {} THEN <<text>>
       ELSE LET b == CHOOSE i \in breaks : \A k \in breaks : i <= k
            IN <<SubSeq(text, 1, b - 1)>> \o SplitLines(SubSeq(text, b + 1, Len(text)))

\* str.lstrip() / str.strip() (a line holds no newline)
RECURSIVE LStrip(_)
LStrip(str) == IF str # << >> /\ str[1] = " " THEN LStrip(Tail(str)) ELSE str
RECURSIVE RStrip(_)
RStrip(str) ==
    IF str # << >> /\ str[Len(str)] = " " THEN RStrip(SubSeq(str, 1, Len(str) - 1)) ELSE str
Strip(str) == LStrip(RStrip(str))

\* re.sub(r'^\d+[\.\)]\s*', '', title)
RECURSIVE DigitRunEnd(_, _)
DigitRunEnd(str, j) ==
    IF j <= Len(str) /\ str[j] \in DigitTokens THEN DigitRunEnd(str, j + 1) ELSE j - 1
StripNumberMarker(title) ==
    LET e == DigitRunEnd(title, 1)
    IN IF e >= 1 /\ At(title, e + 1) \in {".", ")"}
       THEN LStrip(SubSeq(title, e + 2, Len(title)))
       ELSE title

\* re.sub(r'^-\s*', '', title)
StripDashMarker(title) ==
    IF At(title, 1) = "-" THEN LStrip(Tail(title)) ELSE title

\* the lines before the first one that contains url
RECURSIVE LinesBefore(_, _, _)
LinesBefore(lines, url, i) ==
    IF i > Len(lines) \/ Contains(lines[i], url) THEN << >>
    ELSE <<lines[i]>> \o LinesBefore(lines, url, i + 1)

\* re.search(r'by ([^"(\[]+)', line).group(1), or << >> without a match
ChannelIn(line) ==
    LET starts == {i \in 1..Len(line) :
                      /\ line[i] = "by"
                      /\ At(line, i + 1) = " "
                      /\ i + 2 <= Len(line)
                      /\ line[i + 2] \notin {"\"", "(", "["}}
    IN IF starts = {} THEN << >>
       ELSE LET i == CHOOSE j \in starts : \A k \in starts : j <= k
                stops == {j \in (i + 2)..Len(line) : line[j] \in {"\"", "(", "["}}
                e == IF stops = {} THEN Len(line)
                     ELSE (CHOOSE j \in stops : \A k \in stops : j <= k) - 1
            IN SubSeq(line, i + 2, e)

\* the entry _extract_video_info builds for one match
VideoEntry(text, m) ==
    LET lines == SplitLines(text)
        withUrl == {i \in 1..Len(lines) : Contains(lines[i], m.url)}
        line_with_url == IF withUrl = {} THEN << >>
                         ELSE lines[CHOOSE i \in withUrl : \A k \in withUrl : i <= k]
        before == LinesBefore(lines, m.url, 1)
        title_candidates ==
            SelectSeq(before, LAMBDA l : Strip(l) # << >> /\ At(l, 1) # "http")
        title == IF title_candidates = << >> THEN <<"Unknown Title">>
                 ELSE Strip(title_candidates[Len(title_candidates)])
        channel_match == ChannelIn(line_with_url)
    IN [title |-> StripDashMarker(StripNumberMarker(title)),
        channel |-> IF channel_match = << >> THEN <<"Unknown Channel">>
                    ELSE Strip(channel_match),
        url |-> m.url,
        video_id |-> m.video_id]

\* an extraction that keeps the first entry of every URL only
ExtractDistinctUrls(text) ==
    LET ms == FindIter(text, 1)
        firsts == SelectSeq([k \in 1..Len(ms) |-> [m |-> ms[k], k |-> k]],
                            LAMBDA e : \A j \in 1..(e.k - 1) : ms[j].url # e.m.url)
    IN [k \in 1..Len(firsts) |-> VideoEntry(text, firsts[k].m)]

_extract_video_info(text) ==
    LET ms == FindIter(text, 1)
    IN [k \in 1..Len(ms) |-> VideoEntry(text, ms[k])]

\* query.lower().split() on the words used
LowerWord(w) ==
    IF w = "Sam" THEN "sam" ELSE IF w = "Altman" THEN "altman" ELSE IF w = "The" THEN "the"
    ELSE w
common_words ==
    {"the", "a", "an", "and", "or", "but", "in", "on", "at", "to", "for", "with",
     "about", "is", "are"}
TopicsCap == 5

_extract_topics(query) ==
    LET words == [i \in 1..Len(query) |-> LowerWord(query[i])]
        kept == SelectSeq(words, LAMBDA w : w \notin common_words /\ Len(w) > 3)
        tps == IF kept = << >> /\ words # << >> THEN <<words[1]>> ELSE kept
    IN SubSeq(tps, 1, IF Len(tps) < TopicsCap THEN Len(tps) ELSE TopicsCap)

\* a _find_videos that reads the answer whatever its status code
FindVideosAnyStatus(query, limit, mode, env) ==
    [success |-> TRUE, query |-> query, raw_response |-> env.content,
     videos |-> _extract_video_info(env.content)]

\* _find_videos: the search through the Perplexity API.  env.api_key: the
\* key is set; env.http: "raises" (requests.post or response.json() raise),
\* "error" (a status other than 200; env.error_json: its body is JSON with
\* an error message) or "ok" with env.content as the answer.
_find_videos(query, limit, mode, env) ==
    IF ~env.api_key
    THEN [success |-> FALSE,
          error |-> <<"No Perplexity API key found. Please set the PERPLEXITY_API_KEY environment variable.">>]
    ELSE IF env.http = "raises"
    THEN [success |-> FALSE,
          error |-> <<"An error occurred while searching for videos: ", "request failed">>]
    ELSE IF env.http = "ok"
    THEN [success |-> TRUE, query |-> query, raw_response |-> env.content,
          videos |-> _extract_video_info(env.content)]
    ELSE [success |-> FALSE,
          error |-> <<"Perplexity API request failed with status code ", "500">>
                    \o (IF env.error_json THEN <<": ", "Invalid model">> ELSE << >>),
          query |-> query]

\* _analyze_transcript: YouTubeTranscriptTool()._run(video_id, topics), or the
\* error dictionary when that raises; env.analysis says which.
_analyze_transcript(vid, tps, env) ==
    IF env.analysis
    THEN [success |-> TRUE, video_id |-> vid, topics |-> tps]
    ELSE [success |-> FALSE, error |-> <<"Failed to analyze transcript: ", "error">>,
          video_id |-> vid]

\* the videos of the search result that carry a video_id
WithVideoId(videos) == SelectSeq(videos, LAMBDA v : v.video_id # << >>)

\* `for video in videos.get("videos", [])`, skipping entries without video_id
VideosToAnalyze(videos, limit) == WithVideoId(videos)

_run(args, env) ==
    LET tps == IF args.topics = << >> THEN _extract_topics(args.query) ELSE args.topics
        videos == _find_videos(args.query, args.limit, args.mode, env)
    IN IF ~videos.success
       THEN [result |-> [success |-> FALSE, error |-> videos.error, query |-> args.query],
             analyzed |-> << >>]
       ELSE LET todo == VideosToAnalyze(videos.videos, args.limit)
                results == [k \in 1..Len(todo) |->
                               [video_info |-> todo[k],
                                transcript_analysis |->
                                    _analyze_transcript(todo[k].video_id, tps, env)]]
            IN [result |-> [success |-> TRUE,
                            query |-> args.query,
                            topics_analyzed |-> tps,
                            videos_found |-> Len(videos.videos),
                            videos_analyzed |-> Len(results),
                            results |-> results],
                analyzed |-> [k \in 1..Len(todo) |-> todo[k].video_id]]

\* Search answers: up to MaxPieces pieces of text, in any order.
Pieces ==
    { <<"http", "s", "://", "www.", "youtube.com/watch?v=", "a", "Z">>,
      <<"http", "://", "youtu.be/", "7", "_", "-">>,
      <<"http", "s", "://", "www.", "example.com/", "a">>,
      <<"\n">>,
      <<"7", ".", " ", "Z", "a", " ">>,
      <<" ", "by", " ", "a", "Z", " ", "(">>,
      <<"-", " ", "a", "\n">> }

RECURSIVE Concat(_)
Concat(ps) == IF ps = << >> THEN << >> ELSE Head(ps) \o Concat(Tail(ps))

SearchContents == {Concat(ps) : ps \in SeqsUpTo(Pieces, MaxPieces)}

Queries == {<<"Sam", "Altman", "eating", "the", "peanuts">>, <<"The", "AI">>, << >>}

EytArgs ==
    [query : Queries, topics : {<< >>, <<"peanuts">>}, limit : 1..MaxLimit,
     mode : {"concise", "detailed"}]

EytEnvs ==
    [api_key : {TRUE}, http : {"ok"}, content : SearchContents, analysis : BOOLEAN,
     error_json : {FALSE}]
    \cup
    [api_key : BOOLEAN, http : {"raises", "error"}, content : {<< >>}, analysis : {TRUE},
     error_json : BOOLEAN]
    \cup
    [api_key : {FALSE}, http : {"ok"}, content : SearchContents, analysis : {TRUE},
     error_json : {FALSE}]

EytOff ==
    /\ eytPc = "off"
    /\ eytArgs = [query |-> << >>, topics |-> << >>, limit |-> 0, mode |-> None]
    /\ eytEnv = [api_key |-> FALSE, http |-> None, content |-> << >>, analysis |-> FALSE,
                 error_json |-> FALSE]
    /\ eytResult = [success |-> FALSE]
    /\ eytAnalyzed = << >>

EytInit ==
    /\ eytPc = "ready"
    /\ eytArgs \in EytArgs
    /\ eytEnv \in EytEnvs
    /\ eytResult = [success |-> FALSE]
    /\ eytAnalyzed = << >>

\* The agent calls the tool: _run from entry to return.
EytRun ==
    /\ eytPc = "ready"
    /\ LET out == _run(eytArgs, eytEnv)
       IN /\ eytResult' = out.result
          /\ eytAnalyzed' = out.analyzed
    /\ eytPc' = "done"
    /\ UNCHANGED <<eytArgs, eytEnv, notEyt>>

EytNext == EytRun

-----------------------------------------------------------------------------
(***************************************************************************)
(* youtube_tool.py of the present app: YouTubeTranscriptTool._run and the  *)
(* helpers it shares, as verbatim copies, with enhanced_youtube_tool.py.   *)
(* An Optional value is NoneVal or Some(x).  A URL is a sequence of        *)
(* tokens, a title or description a sequence of words, a message a         *)
(* sequence of chunks.                                                     *)
(***************************************************************************)

NoneVal == [none |-> TRUE]
Some(x) == [none |-> FALSE, val |-> x]

\* `not x` for an Optional string or list
Falsy(x) == x.none \/ x.val = << >>

\* what an f-string prints for an Optional string
StrOf(x) == IF x.none THEN <<"None">> ELSE x.val

\* url.split(sep)[-1]
LastPart(url, sep) ==
    LET seps == {i \in 1..Len(url) : url[i] = sep}
    IN IF seps = {} THEN url
       ELSE SubSeq(url, (CHOOSE i \in seps : \A k \in seps : k <= i) + 1, Len(url))

\* url.split(sep)[0]
FirstPart(url, sep) ==
    LET seps == {i \in 1..Len(url) : url[i] = sep}
    IN IF seps = {} THEN url
       ELSE SubSeq(url, 1, (CHOOSE i \in seps : \A k \in seps : i <= k) - 1)

\* re.search(r'v=([^&]+)', url).group(1), or << >> without a match
VParam(url) ==
    LET starts == {i \in 1..(Len(url) - 1) : url[i] = "v=" /\ url[i + 1] # "&"}
    IN IF starts = {} THEN << >>
       ELSE LET i == CHOOSE j \in starts : \A k \in starts : j <= k
            IN FirstPart(SubSeq(url, i + 1, Len(url)), "&")

\* _extract_video_id; `"youtu.be" in None` raises TypeError, which the
\* function catches to return url unchanged
_extract_video_id(url) ==
    IF url.none THEN url
    ELSE IF Contains(url.val, <<"youtu.be">>)
    THEN Some(FirstPart(LastPart(url.val, "/"), "?"))
    ELSE IF Contains(url.val, <<"youtube.com", "/", "watch">>) /\ VParam(url.val) # << >>
    THEN Some(VParam(url.val))
    ELSE url

UnknownDetails(description) ==
    [title |-> <<"Unknown">>, channel |-> <<"Unknown">>, description |-> description]

\* what the YouTube Data API holds for the one video the model knows
ItemDetails ==
    [title |-> <<"Sam", "Altman", "on", "the", "future">>,
     channel |-> <<"Lex">>,
     description |-> <<"A", "talk", "about", "AI">>,
     published_at |-> <<"2024-01-01">>,
     duration |-> <<"PT5M">>,
     view_count |-> <<"N/A">>,
     like_count |-> <<"7">>]

\* _get_video_details: value returned and requests made.  env.details is
\* "ok", "no_items" (an empty items list) or "raises" (build, execute or a
\* missing key of the item raise).
_get_video_details(vid, api_key, env) ==
    IF ~api_key
    THEN [value |-> UnknownDetails(<<"No", "API", "key", "available">>), calls |-> << >>]
    ELSE LET call == <<[api |-> "videos.list", id |-> vid]>>
         IN IF env.details = "raises"
            THEN [value |-> UnknownDetails(<<"Error", ":", "quota">>), calls |-> call]
            ELSE IF env.details = "ok"
            THEN [value |-> ItemDetails, calls |-> call]
            ELSE [value |-> UnknownDetails(<< >>), calls |-> call]

\* _get_transcript: the segments, or [] when get_transcript raises
_get_transcript(vid, env) ==
    [value |-> IF env.transcript_raises THEN << >> ELSE env.segments,
     calls |-> <<[api |-> "get_transcript", id |-> vid]>>]

\* the call of _find_topic_mentions from _run: with topics None the
\* comprehension raises TypeError, and so does the one in the except clause
FindTopicMentionsCall(tr, tps) ==
    IF tps.none
    THEN [raised |-> TRUE, exc |-> <<"'NoneType' object is not iterable">>]
    ELSE [raised |-> FALSE, value |-> _find_topic_mentions(tr, tps.val)]

mention_counts(mentions) == [t \in DOMAIN mentions |-> Len(mentions[t])]

NoTranscriptResult(video_details) ==
    [success |-> FALSE,
     error |-> <<"Could not retrieve transcript for this video">>,
     video_details |-> video_details]

\* the try block of YouTubeTranscriptTool._run
TranscriptRunBody(args, env) ==
    LET vid == _extract_video_id(args.video_url)
        det == _get_video_details(vid, env.youtube_api_key, env)
        tr == _get_transcript(vid, env)
        calls == det.calls \o tr.calls
        found == FindTopicMentionsCall(tr.value, args.topics)
    IN IF tr.value = << >>
       THEN [raised |-> FALSE, result |-> NoTranscriptResult(det.value), calls |-> calls]
       ELSE IF found.raised
       THEN [raised |-> TRUE, exc |-> found.exc, calls |-> calls]
       ELSE [raised |-> FALSE,
             result |-> [success |-> TRUE,
                         video_details |-> det.value,
                         topic_mentions |-> found.value,
                         timestamp_links |-> _generate_timestamp_links(StrOf(vid), found.value),
                         mention_counts |-> mention_counts(found.value),
                         transcript_length |-> Len(tr.value),
                         video_id |-> vid,
                         video_url |-> <<"https://www.youtube.com/watch?v=">> \o StrOf(vid)],
             calls |-> calls]

\* a _run whose exceptions reach the caller
Propagate(body) == body

\* `except Exception as e` of _run
RunExcept(body) ==
    IF body.raised
    THEN [raised |-> FALSE,
          result |-> [success |-> FALSE,
                      error |-> <<"An error occurred: ">> \o body.exc,
                      traceback |-> <<"Traceback (most recent call last)">>],
          calls |-> body.calls]
    ELSE body

TranscriptRun(args, env) == RunExcept(TranscriptRunBody(args, env))

\* Inputs
VideoUrls ==
    { NoneVal, Some(<< >>), Some(<<"abc">>),
      Some(<<"https:", "/", "/", "youtu.be", "/", "abc", "?", "t=", "5">>),
      Some(<<"https:", "/", "/", "www.", "youtube.com", "/", "watch", "?", "v=", "x1",
             "&", "t=", "5">>),
      Some(<<"youtube.com", "/", "watch", "?", "t=", "5">>),
      Some(<<"youtube.com", "/", "watch", "?", "v=", "&", "v=", "x1">>) }

YtSegments ==
    { [text |-> <<"A", "b">>, start |-> 0],
      [text |-> <<"b", "B">>, start |-> 59 * TicksPerSecond + 1],
      [text |-> << >>, start |-> 60 * TicksPerSecond] }
YtTopicLists == {NoneVal} \cup {Some(t) : t \in SeqsUpTo({<<"a">>, <<"B", "B">>}, MaxTopics)}
YtTranscripts == SeqsUpTo(YtSegments, MaxSegments)

TranscriptEnvs ==
    [youtube_api_key : BOOLEAN, details : {"ok", "no_items", "raises"},
     transcript_raises : {FALSE}, segments : YtTranscripts]
    \cup
    [youtube_api_key : BOOLEAN, details : {"ok", "no_items", "raises"},
     transcript_raises : {TRUE}, segments : {<< >>}]

NoResult == [success |-> FALSE]

YtOff ==
    /\ ytPc = "off"
    /\ ytArgs = [video_url |-> NoneVal, topics |-> NoneVal]
    /\ ytEnv = [youtube_api_key |-> FALSE]
    /\ ytResult = NoResult
    /\ ytRaised = FALSE
    /\ ytCalls = << >>

TranscriptInit ==
    /\ ytPc = "ready"
    /\ ytArgs \in [video_url : VideoUrls, topics : YtTopicLists]
    /\ ytEnv \in TranscriptEnvs
    /\ ytResult = NoResult
    /\ ytRaised = FALSE
    /\ ytCalls = << >>

\* YouTubeTranscriptTool._run from entry to return (or to the exception
\* that leaves it)
TranscriptToolRun ==
    /\ ytPc = "ready"
    /\ LET out == TranscriptRun(ytArgs, ytEnv)
       IN /\ ytRaised' = out.raised
          /\ ytResult' = IF out.raised THEN NoResult ELSE out.result
          /\ ytCalls' = out.calls
    /\ ytPc' = "done"
    /\ UNCHANGED <<ytArgs, ytEnv, notYt>>

TranscriptNext == TranscriptToolRun

-----------------------------------------------------------------------------
(***************************************************************************)
(* enhanced_youtube_tool.py of the present app:                            *)
(* EnhancedYouTubeTranscriptTool._run.  A title or description is a        *)
(* sequence of words separated by single blanks; ":" closes the word       *)
(* before it.  A topic is the sequence of its words and blanks.            *)
(***************************************************************************)

\* word.lower() and len(word) of the words used
WordLower ==
    [Sam |-> "sam", Altman |-> "altman", on |-> "on", the |-> "the", future |-> "future",
     A |-> "a", talk |-> "talk", about |-> "about", AI |-> "ai", Unknown |-> "unknown",
     No |-> "no", API |-> "api", key |-> "key", available |-> "available",
     Error |-> "error", quota |-> "quota", Top |-> "top", Ten |-> "ten"]
WordLen ==
    [sam |-> 3, altman |-> 6, on |-> 2, the |-> 3, future |-> 6, a |-> 1, talk |-> 4,
     about |-> 5, ai |-> 2, unknown |-> 7, no |-> 2, api |-> 3, key |-> 3, available |-> 9,
     error |-> 5, quota |-> 5, top |-> 3, ten |-> 3]
\* words matching [A-Z][a-z]+
NameWords == {"Sam", "Altman", "Unknown", "No", "Error", "Top", "Ten"}
key_common_words ==
    {"the", "and", "or", "of", "to", "a", "in", "for", "on", "with", "by", "at", "from"}

IsWordTok(w) == w # ":"

\* re.findall(r'\b\w+\b', title.lower())
WordsOf(title) ==
    LET ws == SelectSeq(title, IsWordTok)
    IN [i \in 1..Len(ws) |-> WordLower[ws[i]]]

\* the words of a phrase joined by blanks
RECURSIVE JoinWords(_)
JoinWords(ws) ==
    IF ws = << >> THEN << >>
    ELSE IF Len(ws) = 1 THEN ws
    ELSE <<Head(ws), " ">> \o JoinWords(Tail(ws))

\* len(phrase)
RECURSIVE PhraseLen(_)
PhraseLen(ws) ==
    IF ws = << >> THEN 0
    ELSE WordLen[Head(ws)] + (IF Len(ws) > 1 THEN 1 ELSE 0) + PhraseLen(Tail(ws))

\* re.findall(r'\b\w+(?:\s+\w+){0,2}\b', description.lower()): from word i
\* on, the phrases of up to three words, each as its list of words
RECURSIVE PhrasesFrom(_, _)
PhrasesFrom(desc, i) ==
    IF i > Len(desc) THEN << >>
    ELSE IF ~IsWordTok(desc[i]) THEN PhrasesFrom(desc, i + 1)
    ELSE LET n == IF i + 1 <= Len(desc) /\ IsWordTok(desc[i + 1])
                  THEN (IF i + 2 <= Len(desc) /\ IsWordTok(desc[i + 2]) THEN 3 ELSE 2)
                  ELSE 1
         IN <<[k \in 1..n |-> WordLower[desc[i + k - 1]]]>> \o PhrasesFrom(desc, i + n)

\* the topics gathered from title and description, before list(set(...))
GatheredTopics(title, description) ==
    LET words == WordsOf(title)
        fromTitle == {<<words[i]>> : i \in {k \in 1..Len(words) :
                          words[k] \notin key_common_words /\ WordLen[words[k]] > 3}}
        phrases == PhrasesFrom(description, 1)
        fromDescription ==
            {JoinWords(phrases[i]) : i \in {k \in 1..Len(phrases) :
                /\ PhraseLen(phrases[k]) > 5
                /\ \A j \in 1..Len(phrases[k]) : phrases[k][j] \notin key_common_words}}
    IN fromTitle \cup fromDescription

\* list(S): the elements in whichever order the set iterates
RECURSIVE Orders(_)
Orders(S) ==
    IF S = {} THEN {<< >>}
    ELSE UNION {{<<x>> \o rest : rest \in Orders(S \ {x})} : x \in S}

KeyTopicsCap == 5

\* list(set(topics))[:5], every outcome
FirstFive(S) ==
    {SubSeq(o, 1, IF Len(o) < KeyTopicsCap THEN Len(o) ELSE KeyTopicsCap) : o \in Orders(S)}

\* re.findall(r'\b[A-Z][a-z]+(?:\s+[A-Z][a-z]+)*\b', title): the maximal
\* runs of capitalised words, from word i on
RECURSIVE NameRunEnd(_, _)
NameRunEnd(title, j) ==
    IF j <= Len(title) /\ title[j] \in NameWords THEN NameRunEnd(title, j + 1) ELSE j - 1
RECURSIVE NamesFrom(_, _)
NamesFrom(title, i) ==
    IF i > Len(title) THEN << >>
    ELSE IF title[i] \notin NameWords THEN NamesFrom(title, i + 1)
    ELSE LET e == NameRunEnd(title, i)
         IN <<JoinWords(SubSeq(title, i, e))>> \o NamesFrom(title, e + 1)

\* _extract_key_topics(video_data): the lists it can return
_extract_key_topics(video_data) ==
    LET S == GatheredTopics(video_data.title, video_data.description)
        names == NamesFrom(video_data.title, 1)
    IN IF S # {} THEN FirstFive(S)
       ELSE IF names # << >> THEN {names}
       ELSE {<<<<"important">>, <<"highlights">>, <<"key", " ", "points">>>>}

\* _extract_key_topics_from_details(video_details): the lists it can return
_extract_key_topics_from_details(video_details) ==
    LET S == GatheredTopics(video_details.title, video_details.description)
    IN IF S # {} THEN FirstFive(S)
       ELSE {<<<<"important">>, <<"highlights">>, <<"key", " ", "points">>, <<"main">>,
               <<"conclusion">>>>}

WatchLink(id) ==
    <<"https:", "/", "/", "www.", "youtube.com", "/", "watch", "?", "v=", id>>
ShortLink(id) == <<"https:", "/", "/", "youtu.be", "/", id>>

\* _search_videos_youtube_api: value returned and requests made
_search_videos_youtube_api(query, env) ==
    IF ~env.youtube_api_key
    THEN [value |-> [videos |-> << >>], calls |-> << >>]
    ELSE LET call == <<[api |-> "youtube.search", q |-> query]>>
         IN IF env.yt_search = "raises"
            THEN [value |-> [videos |-> << >>], calls |-> call]
            ELSE [value |->
                     [videos |-> [i \in 1..Len(env.found) |->
                                     [title |-> env.found[i].title,
                                      link |-> WatchLink(env.found[i].id),
                                      description |-> env.found[i].description]]],
                  calls |-> call]

\* _search_videos: Serper first; without key, on a status other than 200
\* or on an exception the YouTube Data API.  env.serper is "ok", "no_videos"
\* (a 200 answer without the key 'videos'), "error" or "raises".
_search_videos(query, env) ==
    IF ~env.serper_api_key THEN _search_videos_youtube_api(query, env)
    ELSE LET call == <<[api |-> "serper", q |-> query \o <<" youtube">>]>>
             fallback == _search_videos_youtube_api(query, env)
         IN IF env.serper = "ok"
            THEN [value |->
                     [videos |-> [i \in 1..Len(env.found) |->
                                     [title |-> env.found[i].title,
                                      link |-> env.found[i].link,
                                      description |-> << >>]]],
                  calls |-> call]
            ELSE IF env.serper = "no_videos"
            THEN [value |-> [searchParameters |-> query], calls |-> call]
            ELSE [value |-> fallback.value, calls |-> call \o fallback.calls]

\* " ".join([segment["text"] for segment in segs])
RECURSIVE JoinTexts(_)
JoinTexts(segs) ==
    IF segs = << >> THEN << >>
    ELSE IF Len(segs) = 1 THEN segs[1].text
    ELSE segs[1].text \o <<" ">> \o JoinTexts(Tail(segs))

SummaryWhole == 5

_generate_summary(tr) ==
    IF Len(tr) <= SummaryWhole THEN JoinTexts(tr)
    ELSE <<"Beginning: ">> \o JoinTexts(SubSeq(tr, 1, 2))
         \o <<"\n\nMiddle: ">> \o tr[(Len(tr) \div 2) + 1].text
         \o <<"\n\nEnd: ">> \o JoinTexts(SubSeq(tr, Len(tr) - 1, Len(tr)))

\* a search whenever a query is given
SearchesWheneverQuery(args) == ~Falsy(args.query)

\* `if not video_url and query`
Searches(args) == Falsy(args.video_url) /\ ~Falsy(args.query)

\* from "Extract video ID" to the return, for each list of topics the
\* extraction can produce
AnalyseVideo(video_url, tps, calls1, env) ==
    LET vid == _extract_video_id(video_url)
        det == _get_video_details(vid, env.youtube_api_key, env)
        tr == _get_transcript(vid, env)
        calls == calls1 \o det.calls \o tr.calls
    IN IF tr.value = << >>
       THEN {[raised |-> FALSE, result |-> NoTranscriptResult(det.value), calls |-> calls]}
       ELSE {LET found == _find_topic_mentions(tr.value, t)
             IN [raised |-> FALSE,
                 result |-> [success |-> TRUE,
                             video_details |-> det.value,
                             topic_mentions |-> found,
                             timestamp_links |-> _generate_timestamp_links(StrOf(vid), found),
                             mention_counts |-> mention_counts(found),
                             transcript_length |-> Len(tr.value),
                             video_id |-> vid,
                             video_url |-> <<"https://www.youtube.com/watch?v=">> \o StrOf(vid),
                             summary |-> _generate_summary(tr.value)],
                 calls |-> calls]
             : t \in IF tps = << >> THEN _extract_key_topics_from_details(det.value)
                     ELSE {tps}}

\* the try block of EnhancedYouTubeTranscriptTool._run: its possible outcomes
EnhancedRunBody(args, env) ==
    LET topics0 == IF Falsy(args.topics) THEN << >> ELSE args.topics.val
        search == _search_videos(args.query.val, env)
        first_video == search.value.videos[1]
    IN IF Searches(args)
       THEN IF "videos" \notin DOMAIN search.value \/ search.value.videos = << >>
            THEN {[raised |-> FALSE,
                   result |-> [success |-> FALSE,
                               error |-> <<"No videos found for query: ">> \o args.query.val],
                   calls |-> search.calls]}
            ELSE IF first_video.link = << >>
            THEN {[raised |-> FALSE,
                   result |-> [success |-> FALSE,
                               error |-> <<"No video URL provided and no search query specified">>],
                   calls |-> search.calls]}
            ELSE UNION {AnalyseVideo(Some(first_video.link), t, search.calls, env) :
                           t \in IF topics0 = << >> THEN _extract_key_topics(first_video)
                                 ELSE {topics0}}
       ELSE IF Falsy(args.video_url)
       THEN {[raised |-> FALSE,
              result |-> [success |-> FALSE,
                          error |-> <<"No video URL provided and no search query specified">>],
              calls |-> << >>]}
       ELSE AnalyseVideo(args.video_url, topics0, << >>, env)

EnhancedRun(args, env) == {RunExcept(body) : body \in EnhancedRunBody(args, env)}

\* Inputs
MaxResults == 2

FoundVideos ==
    { [id |-> "x1", title |-> <<"Sam", "Altman", "on", "AI">>,
       description |-> <<"A", "talk", "about", "the", "future">>, link |-> WatchLink("x1")],
      [id |-> "abc", title |-> <<"Top", "Ten">>, description |-> << >>,
       link |-> ShortLink("abc")] }

EnhancedQueries == {NoneVal, Some(<< >>), Some(<<"Sam", " ", "Altman">>)}
EnhancedUrls ==
    { NoneVal, Some(<< >>),
      Some(<<"https:", "/", "/", "youtu.be", "/", "abc", "?", "t=", "5">>),
      Some(<<"https:", "/", "/", "www.", "youtube.com", "/", "watch", "?", "v=", "x1",
             "&", "t=", "5">>) }
EnhancedTopicLists == {NoneVal, Some(<< >>), Some(<<<<"a">>, <<"B", "B">>>>)}

EnhancedSegments ==
    { [text |-> <<"A", "b">>, start |-> 0],
      [text |-> <<"the", " ", "future">>, start |-> 59 * TicksPerSecond + 1] }
LongTranscript ==
    [i \in 1..(SummaryWhole + 1) |-> [text |-> <<"b", "B">>, start |-> i * TicksPerSecond]]

SerperEnvs ==
    [serper_api_key : {FALSE}, serper : {"ok"}]
    \cup [serper_api_key : {TRUE}, serper : {"ok", "no_videos", "error", "raises"}]
YouTubeEnvs ==
    [youtube_api_key : {FALSE}, yt_search : {"ok"}, details : {"ok"}]
    \cup [youtube_api_key : {TRUE}, yt_search : {"ok", "raises"}, details : {"ok", "raises"}]
TranscriptOutcomes ==
    [transcript_raises : {TRUE}, segments : {<< >>}]
    \cup [transcript_raises : {FALSE},
          segments : SeqsUpTo(EnhancedSegments, MaxSegments) \cup {LongTranscript}]

EnhancedEnvs ==
    {[serper_api_key |-> se.serper_api_key, serper |-> se.serper,
      youtube_api_key |-> ye.youtube_api_key, yt_search |-> ye.yt_search,
      details |-> ye.details,
      transcript_raises |-> tro.transcript_raises, segments |-> tro.segments,
      found |-> f] :
        se \in SerperEnvs, ye \in YouTubeEnvs, tro \in TranscriptOutcomes,
        f \in SeqsUpTo(FoundVideos, MaxResults)}

EnhancedInit ==
    /\ ytPc = "ready"
    /\ ytArgs \in [query : EnhancedQueries, video_url : EnhancedUrls,
                   topics : EnhancedTopicLists]
    /\ ytEnv \in EnhancedEnvs
    /\ ytResult = NoResult
    /\ ytRaised = FALSE
    /\ ytCalls = << >>

\* EnhancedYouTubeTranscriptTool._run from entry to return
EnhancedToolRun ==
    /\ ytPc = "ready"
    /\ \E out \in EnhancedRun(ytArgs, ytEnv) :
          /\ ytRaised' = out.raised
          /\ ytResult' = IF out.raised THEN NoResult ELSE out.result
          /\ ytCalls' = out.calls
    /\ ytPc' = "done"
    /\ UNCHANGED <<ytArgs, ytEnv, notYt>>

EnhancedNext == EnhancedToolRun

-----------------------------------------------------------------------------
(* Specifications: one per component, the others switched off *)

InitApi == ApiInit /\ remote_participants = << >> /\ SttOff /\ RpcOff /\ MenOff /\ EytOff /\ YtOff
SpecApi == InitApi /\ [][ApiNext]_vars

InitStt == ApiOff /\ remote_participants \in InitialRooms /\ SttInit /\ RpcOff /\ MenOff /\ EytOff /\ YtOff
SpecStt == InitStt /\ [][SttNext]_vars

InitRpc == ApiOff /\ remote_participants \in InitialRooms /\ SttOff /\ RpcInit /\ MenOff /\ EytOff /\ YtOff
SpecRpc == InitRpc /\ [][RpcNext]_vars

InitMentions == ApiOff /\ remote_participants = << >> /\ SttOff /\ RpcOff /\ MenInit /\ EytOff /\ YtOff
SpecMentions == InitMentions /\ [][MenNext]_vars

InitTool == ApiOff /\ remote_participants = << >> /\ SttOff /\ RpcOff /\ MenOff /\ EytInit /\ YtOff
SpecTool == InitTool /\ [][EytNext]_vars

InitTranscript ==
    ApiOff /\ remote_participants = << >> /\ SttOff /\ RpcOff /\ MenOff /\ EytOff /\ TranscriptInit
SpecTranscript == InitTranscript /\ [][TranscriptNext]_vars

InitEnhanced ==
    ApiOff /\ remote_participants = << >> /\ SttOff /\ RpcOff /\ MenOff /\ EytOff /\ EnhancedInit
SpecEnhanced == InitEnhanced /\ [][EnhancedNext]_vars

-----------------------------------------------------------------------------
(* Claims about api.py *)

NeitherGiven(req) ==
    /\ req.app = "present"
    /\ req.endpoint = "/analyze-youtube"
    /\ ~Truthy(req.video_url)
    /\ ~Truthy(req.query)

\* C1: POST /analyze-youtube of the present app with neither video_url nor
\* query set is answered with HTTP 400 and detail 'Either video_url or query
\* must be provided', and no crew is constructed or kicked off.
C1_ValidationAnswers400 ==
    (apiPc = "responded" /\ NeitherGiven(apiReq)) =>
        /\ apiResp.code = 400
        /\ apiResp.detail = <<"Either video_url or query must be provided">>
        /\ ~apiCrew.built
        /\ ~apiCrew.kicked

\* C2: every POST request ends either in an ApiResponse with status
\* 'success' carrying the result of crew.kickoff, or in an HTTP 500 whose
\* detail starts with 'An error occurred: '; the 500 outcome occurs exactly
\* when crew construction or kickoff raised.
C2_SuccessOr500 ==
    apiPc = "responded" =>
        /\ \/ /\ apiResp.code = 200
              /\ apiResp.status = "success"
              /\ apiCrew.kicked
              /\ apiResp.results = <<"result of", apiCrew.tasks[1]>>
           \/ /\ apiResp.code = 500
              /\ Len(apiResp.detail) >= 1
              /\ apiResp.detail[1] = "An error occurred: "
        /\ (apiResp.code = 500) <=> (apiCrew.raisedAt \in {"construct", "kickoff"})

-----------------------------------------------------------------------------
(* Claims about transcription.py *)

AttemptsTo(p) == Cardinality({i \in 1..Len(bcAttempts) : bcAttempts[i].to = p})

BroadcastOver ==
    /\ sttPc = "yield"
    /\ enable_transcription
    /\ IsTranscript(sttEvents[sttNext])
    /\ bcStart # {}

\* C3: for each FINAL or INTERIM transcript handled while the room has at
\* least one remote participant, one 'transcription' message is published to
\* every remote participant of the room (here: every participant that was in
\* the room from the start of the broadcast to its end), also when a publish
\* fails or participants join or leave during the broadcast.
C3_BroadcastReachesAll ==
    BroadcastOver =>
        \A p \in bcStart \cap Live(remote_participants) : AttemptsTo(p) = 1

\* C4: process_stt_stream yields every speech event of the default STT node
\* exactly once and in the same order: what has been yielded is always the
\* stream up to the event in hand, and all of it once the generator ends,
\* whether transcription is enabled or not, whatever the event types, and
\* also after a failed broadcast.
C4_YieldsEveryEventInOrder ==
    /\ sttPc \in {"off", "pull", "broadcast", "yield", "done", "raised"}
    /\ Len(sttYielded) <= Len(sttEvents)
    /\ sttYielded = SubSeq(sttEvents, 1, Len(sttYielded))
    /\ Len(sttYielded) = IF sttPc \in {"broadcast", "yield"} THEN sttNext - 1 ELSE sttNext
    /\ sttPc \in {"done", "raised"} => sttYielded = sttEvents

C4_Witness ==
    /\ sttPc = "done"
    /\ enable_transcription
    /\ sttSawFailure
    /\ Len(sttEvents) = MaxEvents
    /\ sttYielded = sttEvents
    /\ \E i \in 1..Len(sttYielded) : sttYielded[i].type = "FINAL_TRANSCRIPT"

-----------------------------------------------------------------------------
(* Claims about the frontend dispatch *)

\* C5: send_task_to_frontend (tools.py) and _send_task_to_frontend
\* (agent.py), called while the room has no remote participants, return
\* {'status': 'ERROR', 'message': 'No remote participants to send the task
\* to.'} and perform no RPC.
C5_EmptyRoomNoRpc ==
    callRoom = <<{}>> =>
        /\ taskState = "finished"
        /\ taskResult = NoParticipantsResult
        /\ rpcCalls = << >>
        /\ rpcOutcome = NoOutcome

C5_Witness ==
    /\ callRoom = <<{}>>
    /\ taskState = "finished"
    /\ toolPc = "returned"
    /\ toolResult = NoParticipantsResult

\* C6: with at least one remote participant, send_task_to_frontend maps the
\* outcome of perform_rpc to its result without raising: SUCCESS with the
\* reply as frontend_response iff perform_rpc returned, the 'RPC timeout'
\* error on TimeoutError, the 'RPC error' error on any other exception.
C6_RpcOutcomeMapped ==
    (callRoom # << >> /\ callRoom # <<{}>>) =>
        /\ Len(rpcCalls) = 1
        /\ rpcCalls[1].destination_identity \in callRoom[1]
        /\ rpcOutcome.outcome \in RpcOutcomes => taskState = "finished"
        /\ taskState = "finished" =>
              /\ rpcOutcome.outcome \in RpcOutcomes
              /\ (taskResult.status = "SUCCESS") <=> (rpcOutcome.outcome = "returned")
              /\ rpcOutcome.outcome = "returned" =>
                    /\ rpcOutcome.reply \in Replies
                    /\ taskResult = SuccessResult("Youtube", rpcOutcome.reply)
              /\ rpcOutcome.outcome = "TimeoutError" =>
                    taskResult = [status |-> "ERROR",
                                  message |-> <<"RPC timeout for task '", "Youtube", "'.">>]
              /\ rpcOutcome.outcome = "RpcError" =>
                    /\ taskResult.status = "ERROR"
                    /\ SubSeq(taskResult.message, 1, 3) =
                          <<"RPC error for task '", "Youtube", "': ">>

C6_Witness ==
    /\ callRoom # << >> /\ callRoom # <<{}>>
    /\ taskState = "finished"
    /\ rpcOutcome.outcome = "TimeoutError"
    /\ toolPc = "returned"
    /\ toolResult = TimeoutResult("Youtube")

\* C7: a tool call cancelled while it awaits the frontend dispatch returns
\* {'status': 'ERROR', 'message': 'Youtube task cancelled by user'}, and
\* once the tool has returned (by success, error or cancellation) the
\* frontend task it created is finished or cancelled, never left pending.
C7_CancelledToolReturnsError ==
    toolPc = "returned" =>
        /\ taskState \in {"finished", "cancelled"}
        /\ toolCancelled => toolResult = CancelledResult
        /\ ~toolCancelled => (taskState = "finished" /\ toolResult = taskResult)

C7_Witness ==
    /\ toolPc = "returned"
    /\ toolCancelled
    /\ Len(rpcCalls) = 1
    /\ rpcOutcome.outcome = "CancelledError"
    /\ taskState = "cancelled"
    /\ toolResult = CancelledResult

-----------------------------------------------------------------------------
(* Claims about topic matching and timestamps *)

\* indices of the segments whose lower-cased text contains the lower-cased topic
MatchingSegments(t) ==
    {i \in 1..Len(transcript) : Contains(Lower(transcript[i].text), Lower(t))}

\* the n-th smallest element of a set of indices
NthOf(M, n) == CHOOSE i \in M : Cardinality({j \in M : j <= i}) = n

TimesRequested(t) == Cardinality({k \in 1..Len(topics) : topics[k] = t})

\* C8: _find_topic_mentions returns one key per requested topic (an empty
\* list for a topic without match); for every topic and segment a mention is
\* recorded iff the lower-cased topic is a substring of the lower-cased
\* segment text (once per time the topic was requested); the mentions of a
\* topic are in transcript order and carry the segment's original text and
\* start time.
C8_MentionsIffSubstring ==
    menPc \in {"found", "linked"} =>
        /\ DOMAIN topic_mentions = Range(topics)
        /\ \A t \in Range(topics) :
              LET L == topic_mentions[t]
                  M == MatchingSegments(t)
                  c == TimesRequested(t)
              IN /\ Len(L) = c * Cardinality(M)
                 /\ \A i \in 1..Len(transcript) :
                       (i \in M) <=>
                          \E k \in 1..Len(L) :
                              /\ L[k].text = transcript[i].text
                              /\ L[k].time_in_seconds = transcript[i].start
                 /\ \A k \in 1..Len(L) :
                       LET i == NthOf(M, ((k - 1) \div c) + 1)
                       IN /\ L[k].text = transcript[i].text
                          /\ L[k].time_in_seconds = transcript[i].start

C8_Witness ==
    /\ menPc = "found"
    /\ Len(transcript) = 2
    /\ transcript[1].text # transcript[2].text
    /\ \E t1, t2 \in Range(topics) :
          /\ t1 # Lower(t1)
          /\ Len(topic_mentions[t1]) = 2
          /\ topic_mentions[t1][1].text = transcript[1].text
          /\ topic_mentions[t1][1].text # Lower(transcript[1].text)
          /\ topic_mentions[t2] = << >>

IsDigits(str) == \A i \in 1..Len(str) : str[i] \in Range(DigitChars)
DigitValue(c) == CHOOSE n \in 0..9 : DigitChars[n + 1] = c

RECURSIVE ParseInt(_)
ParseInt(str) ==
    IF str = << >> THEN 0
    ELSE 10 * ParseInt(SubSeq(str, 1, Len(str) - 1)) + DigitValue(str[Len(str)])

\* a decimal numeral without superfluous leading zeros beyond `width` digits
PaddedNumeral(str, width) ==
    /\ IsDigits(str)
    /\ Len(str) >= width
    /\ Len(str) > width => (Len(str) > 1 /\ str[1] # "0")

\* C9: for a mention in a segment starting at s >= 0 seconds, 'timestamp' is
\* MM:SS with MM = floor(s / 60) and SS = floor(s mod 60), each zero-padded
\* to at least two digits and SS in 0..59; 'youtube_timestamp' is floor(s);
\* the timestamp_link is 'https://www.youtube.com/watch?v=<video_id>&t=<floor(s)>s';
\* so 60*MM + SS equals the t of the link.
C9_TimestampFormat ==
    menPc = "linked" =>
        \A tp \in DOMAIN timestamp_links :
          \A k \in 1..Len(timestamp_links[tp]) :
            LET e == timestamp_links[tp][k]
                s == e.time_in_seconds
                ts == e.timestamp
                colons == {i \in 1..Len(ts) : ts[i] = ":"}
                link == e.timestamp_link
            IN /\ Cardinality(colons) = 1
               /\ LET c == CHOOSE i \in colons : TRUE
                      mm == SubSeq(ts, 1, c - 1)
                      ss == SubSeq(ts, c + 1, Len(ts))
                      MM == ParseInt(mm)
                      SS == ParseInt(ss)
                      t == e.youtube_timestamp
                      digits == SubSeq(link, 4, Len(link) - 1)
                  IN /\ PaddedNumeral(mm, 2)
                     /\ PaddedNumeral(ss, 2)
                     /\ MM * 60 * TicksPerSecond <= s
                     /\ s < (MM + 1) * 60 * TicksPerSecond
                     /\ SS \in 0..59
                     /\ (MM * 60 + SS) * TicksPerSecond <= s
                     /\ s < (MM * 60 + SS + 1) * TicksPerSecond
                     /\ t * TicksPerSecond <= s
                     /\ s < (t + 1) * TicksPerSecond
                     /\ Len(link) >= 5
                     /\ SubSeq(link, 1, 3) =
                           <<"https://www.youtube.com/watch?v=", video_id, "&t=">>
                     /\ link[Len(link)] = "s"
                     /\ PaddedNumeral(digits, 1)
                     /\ ParseInt(digits) = t
                     /\ 60 * MM + SS = t

C9_Witness ==
    /\ menPc = "linked"
    /\ \E tp \in DOMAIN timestamp_links :
          /\ Len(timestamp_links[tp]) = 1
          /\ timestamp_links[tp][1].timestamp = <<"1", "0", "0", ":", "5", "9">>
          /\ timestamp_links[tp][1].time_in_seconds = 6059 * TicksPerSecond + 1
          /\ timestamp_links[tp][1].timestamp_link =
                <<"https://www.youtube.com/watch?v=", "abc_-123", "&t=",
                  "6", "0", "5", "9", "s">>

-----------------------------------------------------------------------------
(* Claims about the enhanced YouTube tool *)

\* C10: EnhancedYouTubeTool._run treats limit as the maximum number of
\* videos to analyze: in every successful result videos_analyzed (and the
\* length of results) is at most limit, however many YouTube URLs the search
\* response contains.
C10_AtMostLimitAnalyzed ==
    (eytPc = "done" /\ eytResult.success) =>
        /\ eytResult.videos_analyzed <= eytArgs.limit
        /\ Len(eytResult.results) <= eytArgs.limit

-----------------------------------------------------------------------------
(* Claims about YouTubeTranscriptTool._run *)

DetailsFailed == ~ytEnv.youtube_api_key \/ ytEnv.details # "ok"
TranscriptMissing == ytEnv.transcript_raises \/ ytEnv.segments = << >>

\* C11: YouTubeTranscriptTool._run never raises and returns a dictionary
\* with a boolean 'success'; when the transcript cannot be fetched or is
\* empty the result is success False with error 'Could not retrieve
\* transcript for this video' and the video_details; when fetching the video
\* details fails (no API key, API error, no item) the transcript is still
\* fetched and analysed, and the reported title is 'Unknown'.
C11_TranscriptToolNeverRaises ==
    ytPc = "done" =>
        /\ ~ytRaised
        /\ ytResult.success \in BOOLEAN
        /\ TranscriptMissing =>
              /\ ~ytResult.success
              /\ ytResult.error = <<"Could not retrieve transcript for this video">>
              /\ "video_details" \in DOMAIN ytResult
        /\ DetailsFailed =>
              /\ \E k \in 1..Len(ytCalls) : ytCalls[k].api = "get_transcript"
              /\ "video_details" \in DOMAIN ytResult =>
                    ytResult.video_details.title = <<"Unknown">>
              /\ (~TranscriptMissing /\ ~ytArgs.topics.none) =>
                    /\ ytResult.success
                    /\ ytResult.video_details.title = <<"Unknown">>
                    /\ ytResult.transcript_length = Len(ytEnv.segments)
                    /\ ytResult.topic_mentions =
                          _find_topic_mentions(ytEnv.segments, ytArgs.topics.val)

C11_Witness ==
    /\ ytPc = "done"
    /\ ytEnv.youtube_api_key
    /\ ytEnv.details = "raises"
    /\ Len(ytEnv.segments) = 2
    /\ ytResult.success
    /\ ytResult.video_details.title = <<"Unknown">>
    /\ \E t \in DOMAIN ytResult.topic_mentions : Len(ytResult.topic_mentions[t]) = 2

SearchFails == ~eytEnv.api_key \/ eytEnv.http \in {"raises", "error"}

\* the error of the failed search, case by case
SearchError ==
    IF ~eytEnv.api_key
    THEN <<"No Perplexity API key found. Please set the PERPLEXITY_API_KEY environment variable.">>
    ELSE IF eytEnv.http = "raises"
    THEN <<"An error occurred while searching for videos: ", "request failed">>
    ELSE IF eytEnv.error_json
    THEN <<"Perplexity API request failed with status code ", "500", ": ", "Invalid model">>
    ELSE <<"Perplexity API request failed with status code ", "500">>

\* C12: when the video search of EnhancedYouTubeTool._run fails (no
\* PERPLEXITY_API_KEY, a status other than 200, or an exception during the
\* request), the result is success False with the search error and the
\* query, and no transcript is fetched or analysed for any video.
C12_SearchFailureStopsRun ==
    (eytPc = "done" /\ SearchFails) =>
        /\ eytResult = [success |-> FALSE, error |-> SearchError, query |-> eytArgs.query]
        /\ eytAnalyzed = << >>

C12_Witness ==
    /\ eytPc = "done"
    /\ eytEnv.api_key
    /\ eytEnv.http = "error"
    /\ eytEnv.error_json
    /\ eytArgs.query # << >>
    /\ ~eytResult.success
    /\ eytResult.query = eytArgs.query
    /\ eytAnalyzed = << >>

-----------------------------------------------------------------------------
(* Claims about EnhancedYouTubeTranscriptTool._run *)

SearchApis == {"serper", "youtube.search"}
CallsTo(apis) == {k \in 1..Len(ytCalls) : ytCalls[k].api \in apis}

\* what the search answers: Serper's list on a 200, else the YouTube Data
\* API's list, if there is a key and the request succeeds
SearchAnswer ==
    IF ytEnv.serper_api_key /\ ytEnv.serper = "ok" THEN ytEnv.found
    ELSE IF ytEnv.serper_api_key /\ ytEnv.serper = "no_videos" THEN << >>
    ELSE IF ytEnv.youtube_api_key /\ ytEnv.yt_search = "ok" THEN ytEnv.found
    ELSE << >>

\* the video with this id, and no other, was fetched and analysed
AnalysedVideoIs(id) ==
    /\ \E k \in 1..Len(ytCalls) : ytCalls[k] = [api |-> "get_transcript", id |-> Some(<<id>>)]
    /\ \A k \in CallsTo({"get_transcript", "videos.list"}) : ytCalls[k].id = Some(<<id>>)
    /\ ytResult.success => ytResult.video_id = Some(<<id>>)

\* the id a URL of the inputs names, read off the URL
IdNamedBy(url) == IF Contains(url, <<"abc">>) THEN "abc" ELSE "x1"

\* C13: in EnhancedYouTubeTranscriptTool._run a given video_url overrides
\* query: with a non-empty video_url no video search is performed and the
\* analysed video is the one video_url identifies; with an empty video_url
\* and a non-empty query the first search result is analysed; with both
\* empty the result is success False with error 'No video URL provided and
\* no search query specified' and no external request is made.
C13_VideoUrlOverridesQuery ==
    ytPc = "done" =>
        /\ ~Falsy(ytArgs.video_url) =>
              /\ CallsTo(SearchApis) = {}
              /\ AnalysedVideoIs(IdNamedBy(ytArgs.video_url.val))
        /\ (Falsy(ytArgs.video_url) /\ ~Falsy(ytArgs.query)) =>
              /\ SearchAnswer # << >> => AnalysedVideoIs(SearchAnswer[1].id)
              /\ SearchAnswer = << >> =>
                    /\ ytResult = [success |-> FALSE,
                                   error |-> <<"No videos found for query: ">>
                                             \o ytArgs.query.val]
                    /\ CallsTo({"get_transcript", "videos.list"}) = {}
        /\ (Falsy(ytArgs.video_url) /\ Falsy(ytArgs.query)) =>
              /\ ytResult = [success |-> FALSE,
                             error |-> <<"No video URL provided and no search query specified">>]
              /\ ytCalls = << >>

C13_Witness ==
    /\ ytPc = "done"
    /\ ~Falsy(ytArgs.video_url)
    /\ ~Falsy(ytArgs.query)
    /\ ytEnv.serper_api_key
    /\ ytEnv.serper = "ok"
    /\ Len(ytEnv.found) = 2
    /\ ytEnv.found[1].id = "x1"
    /\ ytResult.success
    /\ ytResult.video_id = Some(<<"abc">>)
    /\ CallsTo(SearchApis) = {}

-----------------------------------------------------------------------------
(* Claims about the task chosen by /analyze-youtube *)

PresentAnalyzeYoutube(req) == req.app = "present" /\ req.endpoint = "/analyze-youtube"

\* the crew framework itself failed, building the crew or running it
FrameworkRaised ==
    apiResp.detail \in {<<"An error occurred: ", "construct failed">>,
                        <<"An error occurred: ", "kickoff failed">>}

\* C14: POST /analyze-youtube of the present app uses the search task if
\* query is provided, otherwise the analysis task: with a non-empty query
\* (with or without video_url) the crew's single task is the YouTube search
\* task and the request ends with status 'success' when that crew succeeds;
\* with only video_url the single task is the YouTube analysis task.
C14_QueryRunsSearchTask ==
    (apiPc = "responded" /\ PresentAnalyzeYoutube(apiReq) /\ ~FrameworkRaised) =>
        /\ Truthy(apiReq.query) =>
              /\ apiCrew.kicked
              /\ apiCrew.tasks = <<"youtube_search_task">>
              /\ apiResp.status = "success"
        /\ (~Truthy(apiReq.query) /\ Truthy(apiReq.video_url)) =>
              /\ apiCrew.kicked
              /\ apiCrew.tasks = <<"youtube_analysis_task">>
              /\ apiResp.status = "success"

-----------------------------------------------------------------------------
(* Claims about _extract_video_info *)

SearchText == eytEnv.content
ExtractedVideos == [k \in 1..Len(eytResult.results) |-> eytResult.results[k].video_info]

IdCharTokens == {"a", "Z", "7", "_", "-", "s", "http"}

\* what a YouTube URL begins with, up to the id
UrlPrefixes ==
    {<<"http">> \o sch \o <<"://">> \o www \o <<host>> :
        sch \in {<< >>, <<"s">>}, www \in {<< >>, <<"www.">>},
        host \in {"youtube.com/watch?v=", "youtu.be/"}}

PrefixesAt(i) ==
    {pre \in UrlPrefixes :
        /\ i + Len(pre) <= Len(SearchText)
        /\ SubSeq(SearchText, i, i + Len(pre) - 1) = pre
        /\ SearchText[i + Len(pre)] \in IdCharTokens}

\* the positions where a YouTube URL with a non-empty id begins
UrlStarts == {i \in 1..Len(SearchText) : PrefixesAt(i) # {}}
IdStart(i) == i + Len(CHOOSE pre \in PrefixesAt(i) : TRUE)

\* the last position of the URL beginning at i: its id runs as far as id
\* characters go
UrlEnd(i) ==
    CHOOSE e \in IdStart(i)..Len(SearchText) :
        /\ \A j \in IdStart(i)..e : SearchText[j] \in IdCharTokens
        /\ e = Len(SearchText) \/ SearchText[e + 1] \notin IdCharTokens

IsSuffix(suf, str) ==
    Len(suf) <= Len(str) /\ SubSeq(str, Len(str) - Len(suf) + 1, Len(str)) = suf

\* C15: _extract_video_info returns exactly one entry per occurrence of a
\* YouTube URL (youtube.com/watch?v=<id> or youtu.be/<id>) in the search
\* text, in text order and without de-duplication; each video_id is
\* non-empty, made of letters, digits, '_' and '-' only, and the suffix of
\* the entry's url; title defaults to 'Unknown Title' (no line of text
\* before the URL) and channel to 'Unknown Channel' (no 'by ...' in the
\* text); a text without such a URL yields an empty list.
C15_OneEntryPerUrl ==
    (eytPc = "done" /\ eytResult.success) =>
        /\ \E Occ \in SUBSET UrlStarts :
              /\ \A i \in UrlStarts : \E o \in Occ : o <= i /\ i <= UrlEnd(o)
              /\ \A o1, o2 \in Occ : o1 < o2 => UrlEnd(o1) < o2
              /\ Len(ExtractedVideos) = Cardinality(Occ)
              /\ \A k \in 1..Len(ExtractedVideos) :
                    LET o == NthOf(Occ, k)
                        v == ExtractedVideos[k]
                    IN /\ v.url = SubSeq(SearchText, o, UrlEnd(o))
                       /\ v.video_id = SubSeq(SearchText, IdStart(o), UrlEnd(o))
                       /\ (\A j \in 1..(o - 1) : SearchText[j] # "\n") =>
                             v.title = <<"Unknown Title">>
        /\ \A k \in 1..Len(ExtractedVideos) :
              LET v == ExtractedVideos[k]
              IN /\ v.video_id # << >>
                 /\ \A j \in 1..Len(v.video_id) : v.video_id[j] \in IdCharTokens
                 /\ IsSuffix(v.video_id, v.url)
                 /\ (\A j \in 1..Len(SearchText) : SearchText[j] # "by") =>
                       v.channel = <<"Unknown Channel">>
        /\ UrlStarts = {} => ExtractedVideos = << >>

C15_Witness ==
    /\ eytPc = "done"
    /\ eytResult.success
    /\ Len(ExtractedVideos) = 2
    /\ ExtractedVideos[1].url = ExtractedVideos[2].url
    /\ ExtractedVideos[1].video_id = <<"7", "_", "-">>
    /\ ExtractedVideos[2].title = <<"Unknown Title">>
    /\ ExtractedVideos[2].channel = <<"Unknown Channel">>
    /\ Cardinality(UrlStarts) = 2

=============================================================================
